---- MODULE Spec2Model ----
(***************************************************************************)
(* blaze/compute/pyfunc.py: the expression-to-Python compiler              *)
(* (print_python, funcstr, lambdify), the process-wide placeholder-name    *)
(* generator funcnames, and the broadcast fuser (broadcast_collect,        *)
(* leaves_of_type).                                                        *)
(*                                                                         *)
(* Text is modelled as the sequence of its lexemes, with every blank kept  *)
(* as the lexeme " ": 't[0] + t[1]' is                                     *)
(* <<"t","[","0","]"," ","+"," ","t","[","1","]">>.  A name is itself a    *)
(* sequence of lexemes, so that a name holding a blank ('my col') is the   *)
(* three lexemes "my", " ", "col".                                         *)
(***************************************************************************)
EXTENDS Integers, Sequences, FiniteSets, TLC

VARIABLES expr, leaves, pc, counter, issued, result, value,
          fexpr, fpc, fused, created, fused2, created2,
          tpc, texpr, ttodo, tscope, tdrawn, gi_running, gi_frame_i

vars == <<expr, leaves, pc, counter, issued, result, value,
          fexpr, fpc, fused, created, fused2, created2,
          tpc, texpr, ttodo, tscope, tdrawn, gi_running, gi_frame_i>>

compilerVars == <<expr, leaves, pc, counter, issued, result, value>>
fuserVars    == <<fexpr, fpc, fused, created, fused2, created2>>
threadVars   == <<tpc, texpr, ttodo, tscope, tdrawn, gi_running, gi_frame_i>>

(***************************************************************************)
(* Bounds of the model.                                                    *)
(***************************************************************************)
MaxDepth == 3
MaxLeaves == 2
MaxCounter == 2
MaxFuseDepth == 4
MaxThreadMaps == 2
MaxThreads == 2
\* Frames the interpreter allows a recursion (far above any tree's depth here).
RecursionLimit == 12

Range(s) == {s[i] : i \in DOMAIN s}

(***************************************************************************)
(* Runtime values: integers, rows (tuples), datetimes, opaque results of   *)
(* opaque callables, callables, modules and raised errors.                 *)
(***************************************************************************)
Val(k, n, s, xs) == [k |-> k, n |-> n, s |-> s, xs |-> xs]
IntV(n) == Val("int", n, "", <<>>)
RowV(xs) == Val("row", 0, "", xs)
DateTimeV(y, mo, d, h, mi, sec, us) ==
    Val("datetime", 0, "", <<IntV(y), IntV(mo), IntV(d), IntV(h), IntV(mi), IntV(sec), IntV(us)>>)
AppV(f, xs) == Val("app", 0, f, xs)
BinV(op, l, r) == Val("bin", 0, op, <<l, r>>)
FuncV(f) == Val("func", 0, f, <<>>)
MethodV(m, self) == Val("method", 0, m, <<self>>)
ModuleV(m) == Val("module", 0, m, <<>>)
ErrV(e) == Val("error", 0, e, <<>>)
NoVal == Val("none", 0, "", <<>>)

(***************************************************************************)
(* Expression nodes of blaze.expr.  Every node carries its class (cat),    *)
(* its own name or operator (tag), its literal value (lit), its declared   *)
(* measure (ty) and whether its declared shape is a collection (coll),     *)
(* its inputs (kids) and, for a Broadcast node, _scalars and _scalar_expr. *)
(***************************************************************************)
Node(cat, tag, lit, ty, coll, kids) ==
    [cat |-> cat, tag |-> tag, lit |-> lit, ty |-> ty, coll |-> coll,
     kids |-> kids, scalars |-> <<>>, sexpr |-> <<>>]

RecFields == << <<"x">>, <<"my", " ", "col">>, <<"when">> >>
FieldType(f) == IF f = <<"when">> THEN "datetime" ELSE "num"

SymbolType(name) == IF name \in {<<"t">>, <<"s">>} THEN "rec" ELSE "num"
SymbolColl(name) == name = <<"t">>

Literal(v) == Node("Literal", <<>>, v, IF v.k = "datetime" THEN "datetime" ELSE "num", FALSE, <<>>)
Symbol(name) == Node("Symbol", name, NoVal, SymbolType(name), SymbolColl(name), <<>>)
Field(child, f) == Node("Field", f, NoVal, FieldType(f), child.coll, <<child>>)
Arithmetic(op, lhs, rhs) == Node("Arithmetic", <<op>>, NoVal, "num", lhs.coll \/ rhs.coll, <<lhs, rhs>>)
Math(fn, child) == Node("Math", <<fn>>, NoVal, "num", child.coll, <<child>>)
Date(child) == Node("Date", <<"Date">>, NoVal, "date", child.coll, <<child>>)
Time(child) == Node("Time", <<"Time">>, NoVal, "time", child.coll, <<child>>)
Millisecond(child) == Node("Millisecond", <<"Millisecond">>, NoVal, "num", child.coll, <<child>>)
DateTime(cls, child) == Node("DateTime", <<cls>>, NoVal, "num", child.coll, <<child>>)
Map(func, child) == Node("Map", <<func>>, NoVal, "num", child.coll, <<child>>)
Other(cls, child) == Node("Other", <<cls>>, NoVal, child.ty, cls # "sum" /\ child.coll, <<child>>)

IsDateLiteral(e) == e.cat = "Literal" /\ e.lit.k = "datetime"
IsExpr(e) == e.cat # "Literal"

\* Expr._inputs: the children that are expression nodes.
Inputs(e) == SelectSeq(e.kids, IsExpr)

\* Expr.isidentical: structural equality.
isidentical(a, b) == a = b

\* Expr._name: a symbol's or a field's own name; any other node takes the
\* name of its first input.
RECURSIVE Name(_)
Name(e) ==
    IF e.cat \in {"Symbol", "Field"} THEN e.tag
    ELSE IF Inputs(e) = <<>> THEN <<>>
    ELSE Name(Inputs(e)[1])

RECURSIVE Depth(_)
Depth(e) ==
    IF e.kids = <<>> THEN 0
    ELSE 1 + (CHOOSE m \in {Depth(e.kids[i]) : i \in DOMAIN e.kids} :
                  \A i \in DOMAIN e.kids : Depth(e.kids[i]) <= m)

RECURSIVE Subterms(_)
Subterms(e) ==
    {e} \cup UNION {Subterms(e.kids[i]) : i \in DOMAIN e.kids}

(***************************************************************************)
(* repr of a literal: an int prints its decimal digits; a datetime prints  *)
(* datetime.datetime(y, m, d, h, mi[, s[, us]]), dropping a zero           *)
(* microsecond and then a zero second.                                     *)
(***************************************************************************)
RECURSIVE JoinComma(_)
JoinComma(xs) ==
    IF xs = <<>> THEN <<>>
    ELSE IF Len(xs) = 1 THEN xs[1]
    ELSE xs[1] \o <<",", " ">> \o JoinComma(Tail(xs))

ReprInt(n) == <<ToString(n)>>

Repr(v) ==
    IF v.k = "datetime"
    THEN LET n == IF v.xs[7].n # 0 THEN 7 ELSE IF v.xs[6].n # 0 THEN 6 ELSE 5
         IN  <<"datetime", ".", "datetime", "(">>
             \o JoinComma([i \in 1..n |-> ReprInt(v.xs[i].n)])
             \o <<")">>
    ELSE ReprInt(v.n)

(***************************************************************************)
(* Scopes: dicts from names to runtime objects.                            *)
(***************************************************************************)
EmptyScope == <<>>
Bind(k, v) == k :> v
\* toolz.merge(a, b): the later dict wins on a shared key.
Merge(a, b) == [k \in (DOMAIN a) \cup (DOMAIN b) |-> IF k \in DOMAIN b THEN b[k] ELSE a[k]]
\* toolz.assoc(d, k, v)
Assoc(d, k, v) == Merge(d, Bind(k, v))

(***************************************************************************)
(* funcnames = ('func_%d' % i for i in itertools.count())                  *)
(***************************************************************************)
\* 'func_%d' % i
FuncName(i) == "func_" \o ToString(i)

\* itertools.count().__next__: the value handed out, and the state after it.
CountNextStuck(c) == c
CountNext(c) == c + 1

\* next(funcnames) on generator state g: .next is the state of
\* itertools.count(), .drawn the names this call has drawn so far.
Gen(c) == [next |-> c, drawn |-> <<>>]
next_funcnames(g) ==
    [name |-> FuncName(g.next),
     g |-> [next |-> CountNext(g.next), drawn |-> Append(g.drawn, FuncName(g.next))]]

(***************************************************************************)
(* parenthesize                                                            *)
(***************************************************************************)
parenthesizeNever(s) == s
parenthesize(s) ==
    IF " " \in Range(s) THEN <<"(">> \o s \o <<")">> ELSE s

(***************************************************************************)
(* print_python.  A call returns (text, scope) or raises; c is the state   *)
(* of funcnames before the call and .c its state after it.                 *)
(***************************************************************************)
Return(text, scope, c) == [ok |-> TRUE, err |-> "", text |-> text, scope |-> scope, c |-> c]
Raise(err, c) == [ok |-> FALSE, err |-> err, text |-> <<>>, scope |-> EmptyScope, c |-> c]

ReturnNothing(c) == Return(<<>>, EmptyScope, c)
RaiseNotImplemented(c) == Raise("NotImplementedError", c)

LeafMatchSymbolsOnly(ls, e) == e.cat = "Symbol" /\ \E i \in DOMAIN ls : isidentical(e, ls[i])
LeafMatch(ls, e) == \E i \in DOMAIN ls : isidentical(e, ls[i])

\* list.index: the 0-based position of the first equal entry.
Index(xs, x) == (CHOOSE i \in DOMAIN xs : xs[i] = x /\ \A j \in 1..(i-1) : xs[j] # x) - 1

\* str.lower of the class names of the date/time accessors.
Lower(cls) ==
    CASE cls = "Year" -> "year"
      [] cls = "Month" -> "month"
      [] cls = "Day" -> "day"
      [] cls = "Hour" -> "hour"
      [] cls = "Minute" -> "minute"
      [] cls = "Second" -> "second"
      [] cls = "Microsecond" -> "microsecond"
      [] OTHER -> cls

RECURSIVE print_python(_, _, _)
print_python(ls, e, c) ==
    IF IsDateLiteral(e) THEN Return(Repr(e.lit), Bind("datetime", ModuleV("datetime")), c)
    ELSE IF ~IsExpr(e) THEN Return(Repr(e.lit), EmptyScope, c)
    ELSE IF LeafMatch(ls, e) THEN Return(Name(e), EmptyScope, c)
    ELSE IF e.cat = "Symbol" THEN Return(Name(e), EmptyScope, c)
    ELSE IF e.cat = "Field" THEN
        LET child == print_python(ls, e.kids[1], c) IN
        IF ~child.ok THEN child
        ELSE Return(parenthesize(child.text)
                        \o <<"[", ToString(Index(RecFields, Name(e))), "]">>,
                    child.scope, child.c)
    ELSE IF e.cat = "Arithmetic" THEN
        LET lhs == print_python(ls, e.kids[1], c) IN
        IF ~lhs.ok THEN lhs
        ELSE LET rhs == print_python(ls, e.kids[2], lhs.c) IN
             IF ~rhs.ok THEN rhs
             ELSE Return(parenthesize(lhs.text) \o <<" ", e.tag[1], " ">>
                             \o parenthesize(rhs.text),
                         Merge(lhs.scope, rhs.scope), rhs.c)
    ELSE IF e.cat = "Math" THEN
        LET child == print_python(ls, e.kids[1], c) IN
        IF ~child.ok THEN child
        ELSE Return(<<"math", ".", e.tag[1], "(">> \o child.text \o <<")">>,
                    Merge(child.scope, Bind("math", ModuleV("math"))), child.c)
    ELSE IF e.cat = "Date" THEN
        LET child == print_python(ls, e.kids[1], c) IN
        IF ~child.ok THEN child
        ELSE Return(parenthesize(child.text) \o <<".", "date", "(", ")">>,
                    child.scope, child.c)
    ELSE IF e.cat = "Time" THEN
        LET child == print_python(ls, e.kids[1], c) IN
        IF ~child.ok THEN child
        ELSE Return(parenthesize(child.text) \o <<".", "time", "(", ")">>,
                    child.scope, child.c)
    ELSE IF e.cat = "Millisecond" THEN
        LET child == print_python(ls, e.kids[1], c) IN
        IF ~child.ok THEN child
        ELSE Return(parenthesize(child.text)
                        \o <<".", "microsecond", " ", "//", " ", "1000", "(", ")">>,
                    child.scope, child.c)
    ELSE IF e.cat = "DateTime" THEN
        LET child == print_python(ls, e.kids[1], c) IN
        IF ~child.ok THEN child
        ELSE Return(parenthesize(child.text) \o <<".", Lower(e.tag[1])>>,
                    child.scope, child.c)
    ELSE IF e.cat = "Map" THEN
        LET child == print_python(ls, e.kids[1], c) IN
        IF ~child.ok THEN child
        ELSE LET nx == next_funcnames(child.c) IN
             Return(<<nx.name, "(">> \o child.text \o <<")">>,
                    Assoc(child.scope, nx.name, FuncV(e.tag[1])),
                    nx.g)
    ELSE RaiseNotImplemented(c)

(***************************************************************************)
(* funcstr                                                                 *)
(***************************************************************************)
RECURSIVE LeafNames(_, _, _)
LeafNames(ls, i, c) ==
    IF i > Len(ls) THEN [ok |-> TRUE, err |-> "", names |-> <<>>, c |-> c]
    ELSE LET r == print_python(<<ls[i]>>, ls[i], c) IN
         IF ~r.ok THEN [ok |-> FALSE, err |-> r.err, names |-> <<>>, c |-> r.c]
         ELSE LET rest == LeafNames(ls, i + 1, r.c) IN
              [rest EXCEPT !.names = <<r.text>> \o @]

funcstr(ls, e, c) ==
    LET r == print_python(ls, e, c) IN
    IF ~r.ok THEN r
    ELSE LET leaf_names == LeafNames(ls, 1, r.c) IN
         IF ~leaf_names.ok THEN Raise(leaf_names.err, leaf_names.c)
         ELSE Return(<<"lambda", " ">> \o JoinComma(leaf_names.names)
                         \o <<":", " ">> \o r.text,
                     r.scope, leaf_names.c)

(***************************************************************************)
(* eval(s, scope): Python's expression grammar on the lexemes that         *)
(* print_python and funcstr emit, then evaluation of the parsed lambda.    *)
(***************************************************************************)
Ast(k, s, xs) == [k |-> k, s |-> s, xs |-> xs]
SyntaxError == Ast("error", "SyntaxError", <<>>)
Parsed(a, i) == [a |-> a, i |-> i]
Failed(r) == r.a.k = "error"

Punct == {"(", ")", "[", "]", ".", ",", ":", "+", "-", "*", "//", "lambda"}
NumDomain == (0..31) \cup {1000, 2000}
NumLexemes == {ToString(n) : n \in NumDomain}
NumValue(tok) == CHOOSE n \in NumDomain : ToString(n) = tok
IsNameTok(tok) == tok \notin Punct /\ tok \notin NumLexemes
BinOps == {"+", "-", "*", "//"}
Prec(op) == IF op \in {"+", "-"} THEN 1 ELSE 2

Strip(ts) == SelectSeq(ts, LAMBDA t : t # " ")

RECURSIVE ParseExpr(_, _, _)
RECURSIVE ParseRest(_, _, _)
RECURSIVE ParseTrailers(_, _)
RECURSIVE ParseArgs(_, _, _)

ParseAtom(ts, i) ==
    IF i > Len(ts) THEN Parsed(SyntaxError, i)
    ELSE IF ts[i] = "(" THEN
        LET r == ParseExpr(ts, i + 1, 1) IN
        IF Failed(r) THEN r
        ELSE IF r.i <= Len(ts) /\ ts[r.i] = ")" THEN Parsed(r.a, r.i + 1)
        ELSE Parsed(SyntaxError, r.i)
    ELSE IF ts[i] \in NumLexemes THEN Parsed(Ast("num", ts[i], <<>>), i + 1)
    ELSE IF IsNameTok(ts[i]) THEN Parsed(Ast("name", ts[i], <<>>), i + 1)
    ELSE Parsed(SyntaxError, i)

ParseArgs(ts, i, acc) ==
    IF i > Len(ts) THEN [ok |-> FALSE, xs |-> acc, i |-> i]
    ELSE IF ts[i] = ")" THEN [ok |-> TRUE, xs |-> acc, i |-> i + 1]
    ELSE LET r == ParseExpr(ts, i, 1) IN
         IF Failed(r) \/ r.i > Len(ts) THEN [ok |-> FALSE, xs |-> acc, i |-> r.i]
         ELSE IF ts[r.i] = "," THEN ParseArgs(ts, r.i + 1, Append(acc, r.a))
         ELSE IF ts[r.i] = ")" THEN [ok |-> TRUE, xs |-> Append(acc, r.a), i |-> r.i + 1]
         ELSE [ok |-> FALSE, xs |-> acc, i |-> r.i]

ParseTrailers(ts, r) ==
    IF Failed(r) \/ r.i > Len(ts) THEN r
    ELSE IF ts[r.i] = "." THEN
        IF r.i + 1 <= Len(ts) /\ IsNameTok(ts[r.i + 1])
        THEN ParseTrailers(ts, Parsed(Ast("attr", ts[r.i + 1], <<r.a>>), r.i + 2))
        ELSE Parsed(SyntaxError, r.i)
    ELSE IF ts[r.i] = "[" THEN
        LET ix == ParseExpr(ts, r.i + 1, 1) IN
        IF Failed(ix) THEN ix
        ELSE IF ix.i <= Len(ts) /\ ts[ix.i] = "]"
        THEN ParseTrailers(ts, Parsed(Ast("index", "", <<r.a, ix.a>>), ix.i + 1))
        ELSE Parsed(SyntaxError, ix.i)
    ELSE IF ts[r.i] = "(" THEN
        LET args == ParseArgs(ts, r.i + 1, <<>>) IN
        IF ~args.ok THEN Parsed(SyntaxError, args.i)
        ELSE ParseTrailers(ts, Parsed(Ast("call", "", <<r.a>> \o args.xs), args.i))
    ELSE r

ParseRest(ts, lhs, minp) ==
    IF Failed(lhs) \/ lhs.i > Len(ts) THEN lhs
    ELSE IF ts[lhs.i] \in BinOps /\ Prec(ts[lhs.i]) >= minp THEN
        LET rhs == ParseExpr(ts, lhs.i + 1, Prec(ts[lhs.i]) + 1) IN
        IF Failed(rhs) THEN rhs
        ELSE ParseRest(ts, Parsed(Ast("bin", ts[lhs.i], <<lhs.a, rhs.a>>), rhs.i), minp)
    ELSE lhs

ParseExpr(ts, i, minp) ==
    ParseRest(ts, ParseTrailers(ts, ParseAtom(ts, i)), minp)

RECURSIVE ParseParams(_, _, _)
ParseParams(ts, i, acc) ==
    IF i > Len(ts) THEN [ok |-> FALSE, params |-> acc, i |-> i]
    ELSE IF ts[i] = ":" THEN [ok |-> TRUE, params |-> acc, i |-> i + 1]
    ELSE IF ~IsNameTok(ts[i]) \/ ts[i] \in Range(acc) \/ i + 1 > Len(ts)
    THEN [ok |-> FALSE, params |-> acc, i |-> i]
    ELSE IF ts[i + 1] = "," THEN ParseParams(ts, i + 2, Append(acc, ts[i]))
    ELSE IF ts[i + 1] = ":" THEN [ok |-> TRUE, params |-> Append(acc, ts[i]), i |-> i + 2]
    ELSE [ok |-> FALSE, params |-> acc, i |-> i]

\* The parse of 'lambda <params>: <body>', or a SyntaxError.
ParseLambda(text) ==
    LET ts == Strip(text) IN
    IF ts = <<>> \/ ts[1] # "lambda" THEN [ok |-> FALSE, params |-> <<>>, body |-> SyntaxError]
    ELSE LET ps == ParseParams(ts, 2, <<>>) IN
         IF ~ps.ok THEN [ok |-> FALSE, params |-> <<>>, body |-> SyntaxError]
         ELSE LET b == ParseExpr(ts, ps.i, 1) IN
              IF Failed(b) \/ b.i # Len(ts) + 1
              THEN [ok |-> FALSE, params |-> <<>>, body |-> SyntaxError]
              ELSE [ok |-> TRUE, params |-> ps.params, body |-> b.a]

\* Python's binary operators on runtime values.  Results of opaque callables
\* are numbers whose value is not known: an operation on one stays symbolic.
Numeric(v) == v.k \in {"int", "app", "bin"}
ApplyBin(op, l, r) ==
    IF l.k = "error" THEN l
    ELSE IF r.k = "error" THEN r
    ELSE IF ~Numeric(l) \/ ~Numeric(r) THEN ErrV("TypeError")
    ELSE IF l.k = "int" /\ r.k = "int" THEN
        CASE op = "+" -> IntV(l.n + r.n)
          [] op = "-" -> IntV(l.n - r.n)
          [] op = "*" -> IntV(l.n * r.n)
          [] op = "//" -> IF r.n <= 0 THEN ErrV("ZeroDivisionError") ELSE IntV(l.n \div r.n)
          [] OTHER -> ErrV("TypeError")
    ELSE BinV(op, l, r)

DateTimeAttrs == <<"year", "month", "day", "hour", "minute", "second", "microsecond">>

GetAttr(o, name) ==
    IF o.k = "error" THEN o
    ELSE IF o.k = "datetime" /\ name \in Range(DateTimeAttrs) THEN o.xs[Index(DateTimeAttrs, name) + 1]
    ELSE IF o.k = "datetime" /\ name \in {"date", "time"} THEN MethodV(name, o)
    ELSE IF o.k = "module" /\ o.s = "math" /\ name \in {"sin", "cos"} THEN FuncV("math." \o name)
    ELSE IF o.k = "module" /\ o.s = "datetime" /\ name = "datetime" THEN FuncV("datetime.datetime")
    ELSE ErrV("AttributeError")

GetItem(o, ix) ==
    IF o.k = "error" THEN o
    ELSE IF ix.k = "error" THEN ix
    ELSE IF o.k # "row" \/ ix.k # "int" THEN ErrV("TypeError")
    ELSE IF ix.n < 0 \/ ix.n >= Len(o.xs) THEN ErrV("IndexError")
    ELSE o.xs[ix.n + 1]

FirstError(xs) == xs[CHOOSE i \in DOMAIN xs : xs[i].k = "error" /\ \A j \in 1..(i-1) : xs[j].k # "error"]

CallV(f, args) ==
    IF f.k = "error" THEN f
    ELSE IF \E i \in DOMAIN args : args[i].k = "error" THEN FirstError(args)
    ELSE IF f.k = "method" THEN
        IF args = <<>> THEN AppV(f.s, f.xs) ELSE ErrV("TypeError")
    ELSE IF f.k = "func" /\ f.s = "datetime.datetime" THEN
        IF Len(args) \in 3..7 /\ \A i \in DOMAIN args : args[i].k = "int"
        THEN Val("datetime", 0, "", [i \in 1..7 |-> IF i <= Len(args) THEN args[i] ELSE IntV(0)])
        ELSE ErrV("TypeError")
    ELSE IF f.k = "func" THEN AppV(f.s, args)
    ELSE ErrV("TypeError")

RECURSIVE Eval(_, _)
Eval(a, env) ==
    IF a.k = "num" THEN IntV(NumValue(a.s))
    ELSE IF a.k = "name" THEN
        IF a.s \in DOMAIN env THEN env[a.s] ELSE ErrV("NameError")
    ELSE IF a.k = "bin" THEN
        LET l == Eval(a.xs[1], env) IN
        IF l.k = "error" THEN l ELSE ApplyBin(a.s, l, Eval(a.xs[2], env))
    ELSE IF a.k = "attr" THEN GetAttr(Eval(a.xs[1], env), a.s)
    ELSE IF a.k = "index" THEN
        LET o == Eval(a.xs[1], env) IN
        IF o.k = "error" THEN o ELSE GetItem(o, Eval(a.xs[2], env))
    ELSE IF a.k = "call" THEN
        LET f == Eval(a.xs[1], env) IN
        IF f.k = "error" THEN f
        ELSE CallV(f, [i \in 1..(Len(a.xs) - 1) |-> Eval(a.xs[i + 1], env)])
    ELSE ErrV("SyntaxError")

\* Calling the function eval(s, scope) built from the parsed lambda lam on
\* the positional arguments args: parameters shadow the scope's globals.
CallLambda(lam, scope, args) ==
    IF Len(args) # Len(lam.params) THEN ErrV("TypeError")
    ELSE Eval(lam.body,
              Merge(scope, [p \in Range(lam.params) |->
                               args[Index(lam.params, p) + 1]]))

(***************************************************************************)
(* lambdify                                                                *)
(***************************************************************************)
lambdify(ls, e, c) ==
    LET r == funcstr(ls, e, c) IN
    IF ~r.ok THEN r
    ELSE IF ~ParseLambda(r.text).ok THEN Raise("SyntaxError", r.c)
    ELSE r

(***************************************************************************)
(* The value an expression denotes on a row: direct structural evaluation. *)
(***************************************************************************)
RowOf(name) ==
    IF name = <<"t">> THEN RowV(<<IntV(1), IntV(10), DateTimeV(2014, 3, 5, 10, 20, 30, 456789)>>)
    ELSE IF name = <<"s">> THEN RowV(<<IntV(2), IntV(20), DateTimeV(2015, 6, 7, 8, 9, 0, 0)>>)
    ELSE IntV(3)

DateTimeClasses == <<"Year", "Month", "Day", "Hour", "Minute", "Second", "Microsecond">>

RECURSIVE Direct(_)
Direct(e) ==
    IF e.cat = "Literal" THEN e.lit
    ELSE IF e.cat = "Symbol" THEN RowOf(e.tag)
    ELSE LET v == Direct(e.kids[1]) IN
         IF v.k = "error" THEN v
         ELSE IF e.cat = "Field" THEN v.xs[Index(RecFields, e.tag) + 1]
         ELSE IF e.cat = "Arithmetic" THEN ApplyBin(e.tag[1], v, Direct(e.kids[2]))
         ELSE IF e.cat = "Math" THEN AppV("math." \o e.tag[1], <<v>>)
         ELSE IF e.cat = "Date" THEN AppV("date", <<v>>)
         ELSE IF e.cat = "Time" THEN AppV("time", <<v>>)
         ELSE IF e.cat = "Millisecond" THEN IntV(v.xs[7].n \div 1000)
         ELSE IF e.cat = "DateTime" THEN v.xs[Index(DateTimeClasses, e.tag[1]) + 1]
         ELSE IF e.cat = "Map" THEN AppV(e.tag[1], <<v>>)
         ELSE ErrV("NotImplementedError")

(***************************************************************************)
(* The broadcast fuser.                                                    *)
(***************************************************************************)
\* isinstance(e, DateTime): Date, Time and Millisecond are DateTime classes.
DateTimeCats == {"DateTime", "Date", "Time", "Millisecond"}

Broadcastable == {"Arithmetic", "Math", "Map", "Field"} \cup DateTimeCats
WantToBroadcastAndFused == {"Arithmetic", "Math", "Map", "Broadcast"} \cup DateTimeCats
WantToBroadcast == {"Arithmetic", "Math", "Map"} \cup DateTimeCats

\* datashape.iscollection(e.dshape)
iscollection(e) == e.coll

\* str(e), the sort key: the node written out in full, lexeme by lexeme.
RECURSIVE Str(_)
Str(e) ==
    IF e.cat = "Literal" THEN Repr(e.lit)
    ELSE IF e.cat = "Symbol" THEN e.tag
    ELSE IF e.cat = "Field" THEN Str(e.kids[1]) \o <<".">> \o e.tag
    ELSE IF e.cat = "Arithmetic"
         THEN <<"(">> \o Str(e.kids[1]) \o <<" ">> \o e.tag \o <<" ">> \o Str(e.kids[2]) \o <<")">>
    ELSE IF e.cat = "Broadcast"
         THEN <<"Broadcast", "(">> \o JoinComma([i \in DOMAIN e.kids |-> Str(e.kids[i])])
                  \o <<",", " ">> \o Str(e.sexpr[1]) \o <<")">>
    ELSE e.tag \o <<"(">> \o Str(e.kids[1]) \o <<")">>

\* The order of the lexemes, and of strings lexeme by lexeme.
Alphabet == <<" ", "(", ")", "*", "+", ",", ".", "1", "2", "Broadcast", "Date", "Day",
              "Map", "a", "col", "distinct", "f", "g", "my", "s", "sin", "sum", "t",
              "when", "x">>
Ord(tok) == IF tok \in Range(Alphabet) THEN Index(Alphabet, tok) + 1 ELSE 0
RECURSIVE StrLeq(_, _)
StrLeq(u, v) ==
    IF u = <<>> THEN TRUE
    ELSE IF v = <<>> THEN FALSE
    ELSE IF Ord(u[1]) # Ord(v[1]) THEN Ord(u[1]) < Ord(v[1])
    ELSE StrLeq(Tail(u), Tail(v))

\* sorted(leaves, key=str)
RECURSIVE SortedByStr(_)
SortedByStr(S) ==
    IF S = {} THEN <<>>
    ELSE LET m == CHOOSE x \in S : \A y \in S : StrLeq(Str(x), Str(y))
         IN  <<m>> \o SortedByStr(S \ {m})

\* leaves_of_type(types, e)
RECURSIVE leaves_of_typeShallow(_, _)
leaves_of_typeShallow(types, e) ==
    IF e.cat \notin types \/ e.cat = "Field" THEN {e}
    ELSE UNION {leaves_of_typeShallow(types, Inputs(e)[i]) : i \in DOMAIN Inputs(e)}

RECURSIVE leaves_of_type(_, _)
leaves_of_type(types, e) ==
    IF e.cat \notin types THEN {e}
    ELSE UNION {leaves_of_type(types, Inputs(e)[i]) : i \in DOMAIN Inputs(e)}

\* blaze.expr.broadcast(e, leaves): the fused node, whose children and whose
\* leaf references are the leaves and whose scalar expression is e.
broadcast(e, ls) ==
    [cat |-> "Broadcast", tag |-> <<>>, lit |-> NoVal, ty |-> e.ty, coll |-> e.coll,
     kids |-> ls, scalars |-> ls, sexpr |-> <<e>>]

\* Expr._subs({old: new, ...}) on a node's own inputs: the node with each
\* input replaced by its new version.
Subs(e, news) ==
    LET nth(i) == Cardinality({j \in 1..i : IsExpr(e.kids[j])})
    IN  [e EXCEPT !.kids = [i \in DOMAIN e.kids |->
                               IF IsExpr(e.kids[i]) THEN news[nth(i)] ELSE e.kids[i]]]

\* The test of line 152.
WantsFusionAnyShape(e) == e.cat \in WantToBroadcast
WantsFusion(e) == e.cat \in WantToBroadcast /\ iscollection(e)

\* What a call leaves behind when the interpreter's stack is exhausted:
\* RuntimeError (maximum recursion depth exceeded), which no frame catches.
RecursionError ==
    [tree |-> Node("RecursionError", <<>>, NoVal, "none", FALSE, <<>>), created |-> {}, raised |-> TRUE]

\* broadcast_collect(e) with room for `room` more frames: .tree is what it
\* returns, .created the fused nodes it made on the way (line 155), as made.
RECURSIVE broadcast_collectIn(_, _)
broadcast_collectIn(e, room) ==
    IF room = 0 THEN RecursionError
    ELSE
    LET wrapped == IF WantsFusion(e)
                   THEN broadcast(e, SortedByStr(leaves_of_type(Broadcastable, e)))
                   ELSE e
        children == [i \in DOMAIN Inputs(wrapped) |->
                        broadcast_collectIn(Inputs(wrapped)[i], room - 1)]
    IN  IF \E i \in DOMAIN children : children[i].raised
        THEN RecursionError
        ELSE [tree |-> Subs(wrapped, [i \in DOMAIN children |-> children[i].tree]),
              created |-> (IF WantsFusion(e) THEN {wrapped} ELSE {})
                             \cup UNION {children[i].created : i \in DOMAIN children},
              raised |-> FALSE]

broadcast_collect(e) == broadcast_collectIn(e, RecursionLimit)

(***************************************************************************)
(* The compiler's process: a caller builds an expression, designates       *)
(* leaves, calls print_python, funcstr or lambdify, calls the function     *)
(* lambdify returned, and starts over; funcnames lives as long as the      *)
(* process.                                                                *)
(*   expr, leaves   the arguments of the next call                         *)
(*   counter        the state of itertools.count() inside funcnames        *)
(*   issued         every name next(funcnames) has handed out, with the    *)
(*                  counter at the start of the call that drew it and      *)
(*                  whether that call raised                               *)
(*   result         what the last call returned or raised                  *)
(*   value          what the lambdified function returned or raised        *)
(***************************************************************************)
Bases == {Symbol(<<"t">>), Symbol(<<"a">>), Literal(DateTimeV(2000, 1, 2, 3, 4, 5, 0))}
Operands == {Field(Symbol(<<"s">>), <<"x">>),
             Arithmetic("+", Symbol(<<"a">>), Literal(IntV(1)))}
ArithOps == {"*"}
MathFns == {"sin"}
\* The function the caller maps: f the first time, g over an earlier map.
MapFuncs(e) == IF \E n \in Subterms(e) : n.cat = "Map" THEN {"g"} ELSE {"f"}
AccessorClasses == {"Day"}

NoResult == [kind |-> "none", ok |-> FALSE, err |-> "", text |-> <<>>, scope |-> EmptyScope]
Outcome(kind, r) ==
    [kind |-> kind, ok |-> r.ok, err |-> r.err, text |-> r.text, scope |-> r.scope]

LeafCandidates(e) == {n \in Subterms(e) : IsExpr(n)}

CompilerInit ==
    /\ expr \in Bases
    /\ leaves = <<>>
    /\ pc = "build"
    /\ counter = 0
    /\ issued = <<>>
    /\ result = NoResult
    /\ value = NoVal

Grow(e) ==
    /\ pc = "build"
    /\ Depth(expr) < MaxDepth
    /\ expr' = e
    /\ UNCHANGED <<leaves, pc, counter, issued, result, value>>

MkField == \E f \in Range(RecFields) :
    expr.cat = "Symbol" /\ expr.ty = "rec" /\ Grow(Field(expr, f))
MkArithmetic(operands) == \E op \in ArithOps, o \in operands, left \in BOOLEAN :
    expr.ty = "num" /\ Grow(IF left THEN Arithmetic(op, expr, o) ELSE Arithmetic(op, o, expr))
MkMath == \E fn \in MathFns : expr.ty = "num" /\ Grow(Math(fn, expr))
MkMap == \E f \in MapFuncs(expr) : expr.ty = "num" /\ Grow(Map(f, expr))
MkDate == IsExpr(expr) /\ expr.ty = "datetime" /\ Grow(Date(expr))
MkTime == IsExpr(expr) /\ expr.ty = "datetime" /\ Grow(Time(expr))
MkMillisecond == IsExpr(expr) /\ expr.ty = "datetime" /\ Grow(Millisecond(expr))
MkDateTime == \E cls \in AccessorClasses :
    IsExpr(expr) /\ expr.ty = "datetime" /\ Grow(DateTime(cls, expr))
MkOther == expr.ty = "num" /\ Grow(Other("sum", expr))

AddLeaf == \E n \in LeafCandidates(expr) :
    /\ pc \in {"build", "leaves"}
    /\ Len(leaves) < MaxLeaves
    /\ n \notin Range(leaves)
    /\ leaves # <<>> => n.cat \in {"Symbol", "Field"}
    /\ leaves' = Append(leaves, n)
    /\ pc' = "leaves"
    /\ UNCHANGED <<expr, counter, issued, result, value>>

Finish(kind, r) ==
    /\ pc \in {"build", "leaves"}
    /\ r.c.next <= MaxCounter
    /\ result' = Outcome(kind, r)
    /\ counter' = r.c.next
    /\ issued' = issued \o [i \in DOMAIN r.c.drawn |->
                               [name |-> r.c.drawn[i], start |-> counter, failed |-> ~r.ok]]
    /\ pc' = "done"
    /\ UNCHANGED <<expr, leaves, value>>

CallPrintPython == Finish("print_python", print_python(leaves, expr, Gen(counter)))
CallFuncstr == Finish("funcstr", funcstr(leaves, expr, Gen(counter)))
CallLambdify == Finish("lambdify", lambdify(leaves, expr, Gen(counter)))

\* The caller applies the function lambdify returned to one argument per leaf.
Args(ls) == [i \in DOMAIN ls |-> Direct(ls[i])]
CallFunction ==
    /\ pc = "done"
    /\ result.kind = "lambdify"
    /\ result.ok
    /\ value' = CallLambda(ParseLambda(result.text), result.scope, Args(leaves))
    /\ pc' = "called"
    /\ UNCHANGED <<expr, leaves, counter, issued, result>>

NewExpr ==
    /\ pc \in {"done", "called"}
    /\ expr' = Symbol(<<"a">>)
    /\ leaves' = <<>>
    /\ pc' = "build"
    /\ result' = NoResult
    /\ value' = NoVal
    /\ UNCHANGED <<counter, issued>>

FuserIdle ==
    /\ fexpr = Symbol(<<"t">>) /\ fpc = "idle" /\ fused = Symbol(<<"t">>)
    /\ created = {} /\ fused2 = Symbol(<<"t">>) /\ created2 = {}
ThreadsIdle ==
    /\ tpc = <<>> /\ texpr = <<>> /\ ttodo = <<>> /\ tscope = <<>> /\ tdrawn = <<>>
    /\ gi_running = FALSE /\ gi_frame_i = 0

Init == CompilerInit /\ FuserIdle /\ ThreadsIdle

Next ==
    \/ (MkField /\ UNCHANGED <<fuserVars, threadVars>>)
    \/ (MkArithmetic(Operands) /\ UNCHANGED <<fuserVars, threadVars>>)
    \/ (MkMath /\ UNCHANGED <<fuserVars, threadVars>>)
    \/ (MkMap /\ UNCHANGED <<fuserVars, threadVars>>)
    \/ (MkDate /\ UNCHANGED <<fuserVars, threadVars>>)
    \/ (MkTime /\ UNCHANGED <<fuserVars, threadVars>>)
    \/ (MkMillisecond /\ UNCHANGED <<fuserVars, threadVars>>)
    \/ (MkDateTime /\ UNCHANGED <<fuserVars, threadVars>>)
    \/ (MkOther /\ UNCHANGED <<fuserVars, threadVars>>)
    \/ (AddLeaf /\ UNCHANGED <<fuserVars, threadVars>>)
    \/ (CallPrintPython /\ UNCHANGED <<fuserVars, threadVars>>)
    \/ (CallFuncstr /\ UNCHANGED <<fuserVars, threadVars>>)
    \/ (CallLambdify /\ UNCHANGED <<fuserVars, threadVars>>)
    \/ (CallFunction /\ UNCHANGED <<fuserVars, threadVars>>)

Spec == Init /\ [][Next]_vars

(***************************************************************************)
(* The same process making call after call: funcnames is never reset.      *)
(***************************************************************************)
CounterOperands == {Other("sum", Symbol(<<"a">>)), Map("h", Symbol(<<"a">>))}

InitCounter == CompilerInit /\ expr = Symbol(<<"a">>) /\ FuserIdle /\ ThreadsIdle

NextCounter ==
    \/ (MkArithmetic(CounterOperands) /\ UNCHANGED <<fuserVars, threadVars>>)
    \/ (MkMap /\ UNCHANGED <<fuserVars, threadVars>>)
    \/ (MkOther /\ UNCHANGED <<fuserVars, threadVars>>)
    \/ (CallPrintPython /\ UNCHANGED <<fuserVars, threadVars>>)
    \/ (CallFuncstr /\ UNCHANGED <<fuserVars, threadVars>>)
    \/ (CallLambdify /\ UNCHANGED <<fuserVars, threadVars>>)
    \/ (NewExpr /\ UNCHANGED <<fuserVars, threadVars>>)

SpecCounter == InitCounter /\ [][NextCounter]_vars

(***************************************************************************)
(* Claims about the compiler.                                              *)
(***************************************************************************)
Returned(kind) == pc \in {"done", "called"} /\ result.kind = kind
IsLeaf(ls, e) == e \in Range(ls)

\* Every symbol of e lies at or under a designated leaf: the generated
\* function has no free name but those of its scope.
RECURSIVE Covered(_, _)
Covered(ls, e) ==
    \/ ~IsExpr(e)
    \/ IsLeaf(ls, e)
    \/ e.cat # "Symbol" /\ \A i \in DOMAIN e.kids : Covered(ls, e.kids[i])

\* C1: the function lambdify(L, E) returns, called with one argument per
\* leaf in L's order, returns the value E denotes on those arguments.
C1_LambdifyAgreesWithDirectEvaluation ==
    (pc = "called" /\ Covered(leaves, expr)) => value = Direct(expr)

\* C2: print_python on an expression node identical to a designated leaf
\* returns the node's name and an empty scope, whatever the node's class,
\* and compiles none of its children (no placeholder is drawn, no child's
\* error is raised).
C2_LeafShortcut ==
    (Returned("print_python") /\ IsExpr(expr) /\ IsLeaf(leaves, expr))
        => /\ result.ok
           /\ result.text = Name(expr)
           /\ result.scope = EmptyScope
           /\ issued = <<>>

C2_Witness ==
    /\ Returned("print_python") /\ IsLeaf(leaves, expr) /\ result.ok
    /\ expr.cat = "Map" /\ expr.kids[1].cat = "Other"

\* The parenthesis depth of text just before position k.
DepthAt(text, k) ==
    Cardinality({i \in 1..(k - 1) : text[i] = "("})
        - Cardinality({i \in 1..(k - 1) : text[i] = ")"})
\* The positions of operator op, blank on both sides, outside all parentheses.
TopOps(text, op) ==
    {k \in 2..(Len(text) - 1) :
        text[k] = op /\ text[k - 1] = " " /\ text[k + 1] = " " /\ DepthAt(text, k) = 0}
\* side is one parenthesized group: its first parenthesis closes at its end.
Wrapped(side) ==
    /\ Len(side) >= 2
    /\ side[1] = "(" /\ side[Len(side)] = ")"
    /\ \A k \in 2..Len(side) : DepthAt(side, k) >= 1
NoBlank(name) == " " \notin Range(name)

\* The rendering text of arithmetic node e: each operand that is a compiled
\* arithmetic node is one parenthesized group, itself rendered so inside; each
\* operand that is a leaf or a symbol is its bare name (when anyName is
\* FALSE, only if the name holds no blank).
RECURSIVE OperandsRendered(_, _, _, _)
OperandsRendered(ls, e, text, anyName) ==
    LET ks == TopOps(text, e.tag[1]) IN
    /\ ks # {}
    /\ LET k == CHOOSE k \in ks : \A j \in ks : k <= j
           side(i) == IF i = 1 THEN SubSeq(text, 1, k - 2) ELSE SubSeq(text, k + 2, Len(text))
       IN \A i \in 1..2 :
            LET o == e.kids[i] IN
            IF IsExpr(o) /\ o.cat = "Arithmetic" /\ ~IsLeaf(ls, o)
            THEN /\ Wrapped(side(i))
                 /\ OperandsRendered(ls, o, SubSeq(side(i), 2, Len(side(i)) - 1), anyName)
            ELSE IF IsExpr(o) /\ (o.cat = "Symbol" \/ IsLeaf(ls, o)) /\ (anyName \/ NoBlank(Name(o)))
            THEN side(i) = Name(o)
            ELSE TRUE

CompiledArithmetic ==
    /\ Returned("print_python") /\ result.ok
    /\ expr.cat = "Arithmetic" /\ ~IsLeaf(leaves, expr)

\* C7 as stated: in the text of a compiled arithmetic node, at every nesting
\* depth, an operand that is a compiled arithmetic node is wrapped in
\* parentheses and an operand that is a bare leaf or symbol is not.
C7_Original ==
    CompiledArithmetic => OperandsRendered(leaves, expr, result.text, TRUE)

\* C7 as amended: ... and an operand that is a bare leaf or symbol whose name
\* holds no blank is rendered as its name, without parentheses.
C7_Parenthesization ==
    CompiledArithmetic => OperandsRendered(leaves, expr, result.text, FALSE)

C7_Witness ==
    /\ CompiledArithmetic
    /\ \E i, j, m \in 1..2 :
         LET o == expr.kids[i] IN
         /\ o.cat = "Arithmetic" /\ ~IsLeaf(leaves, o)
         /\ o.kids[j].cat = "Arithmetic" /\ ~IsLeaf(leaves, o.kids[j])
         /\ IsLeaf(leaves, o.kids[j].kids[m])

\* A node outside the closed grammar lies on a path from e's root that
\* passes through no designated leaf.
RECURSIVE ReachesUnsupported(_, _)
ReachesUnsupported(ls, e) ==
    /\ IsExpr(e)
    /\ ~IsLeaf(ls, e)
    /\ \/ e.cat \in {"Other", "Broadcast"}
       \/ \E i \in DOMAIN e.kids : ReachesUnsupported(ls, e.kids[i])

\* C8: when the compiler reaches a node outside the closed grammar,
\* print_python, funcstr and lambdify all raise the unsupported-expression
\* error and return no text, no scope and no function.
C8_UnsupportedPropagates ==
    (pc \in {"done", "called"} /\ ReachesUnsupported(leaves, expr))
        => /\ ~result.ok
           /\ result.err = "NotImplementedError"
           /\ result.text = <<>>
           /\ result.scope = EmptyScope
           /\ pc # "called" /\ value = NoVal

C8_Witness ==
    /\ Returned("lambdify") /\ ReachesUnsupported(leaves, expr)
    /\ expr.cat = "Arithmetic" /\ leaves # <<>>
    /\ \E i \in 1..2 : expr.kids[i].cat = "Map" /\ expr.kids[i].kids[1].cat = "Other"

\* The parameter names of 'lambda p1, p2: body', read off the text.
RECURSIVE SplitAt(_, _)
SplitAt(ts, sep) ==
    IF sep \notin Range(ts) THEN <<ts>>
    ELSE LET k == CHOOSE k \in DOMAIN ts : ts[k] = sep /\ \A j \in 1..(k - 1) : ts[j] # sep
         IN  <<SubSeq(ts, 1, k - 1)>> \o SplitAt(SubSeq(ts, k + 1, Len(ts)), sep)
Trim(ts) == IF ts # <<>> /\ ts[1] = " " THEN Tail(ts) ELSE ts
ParamNames(text) ==
    LET head == SplitAt(text, ":")[1]
        ps == SplitAt(SubSeq(head, 3, Len(head)), ",")
    IN  IF SubSeq(head, 3, Len(head)) = <<>> THEN <<>> ELSE [i \in DOMAIN ps |-> Trim(ps[i])]

\* C10, for leaves that are symbols or field accesses: when the leaves are
\* pairwise not identical, the parameter names funcstr renders are one per
\* leaf, in order, and pairwise distinct.
C10_ParameterNamesDistinct ==
    (/\ Returned("funcstr") /\ result.ok
     /\ \A i \in DOMAIN leaves : leaves[i].cat \in {"Symbol", "Field"}
     /\ \A i, j \in DOMAIN leaves : i # j => ~isidentical(leaves[i], leaves[j]))
        => LET ps == ParamNames(result.text) IN
           /\ Len(ps) = Len(leaves)
           /\ \A i \in DOMAIN ps : ps[i] = Name(leaves[i])
           /\ \A i, j \in DOMAIN ps : i # j => ps[i] # ps[j]

\* C3: every name next(funcnames) hands out differs from every name handed
\* out before it, in the same call or an earlier one, raised or not; the
\* counter never decreases.
C3_PlaceholdersNeverRepeat ==
    /\ [](\A i, j \in DOMAIN issued : i # j => issued[i].name # issued[j].name)
    /\ [][counter' >= counter /\ (Len(issued') > Len(issued) => counter' > counter)]_vars

C3_Witness ==
    \E i, j \in DOMAIN issued :
        /\ i < j
        /\ issued[i].failed
        /\ issued[i].start # issued[j].start

(***************************************************************************)
(* The fuser's caller: builds a tabular expression, runs broadcast_collect *)
(* on it, and runs it again on the result.                                 *)
(***************************************************************************)
FuseBases == {Symbol(<<"t">>), Symbol(<<"a">>)}
FuseOperands == {Symbol(<<"a">>), Literal(IntV(2)), Field(Symbol(<<"t">>), <<"x">>)}
FuseFields == {<<"x">>, <<"when">>}

InitFuse ==
    /\ fexpr \in FuseBases
    /\ fpc = "build"
    /\ fused = Symbol(<<"t">>) /\ created = {}
    /\ fused2 = Symbol(<<"t">>) /\ created2 = {}
    /\ CompilerInit /\ expr = Symbol(<<"a">>) /\ ThreadsIdle

FGrow(e) ==
    /\ fpc = "build"
    /\ Depth(fexpr) < MaxFuseDepth
    /\ fexpr' = e
    /\ UNCHANGED <<fpc, fused, created, fused2, created2>>

FField == \E f \in FuseFields : fexpr.cat = "Symbol" /\ fexpr.ty = "rec" /\ FGrow(Field(fexpr, f))
FArithmetic == \E o \in FuseOperands, left \in BOOLEAN :
    fexpr.ty = "num" /\ FGrow(IF left THEN Arithmetic("*", fexpr, o) ELSE Arithmetic("*", o, fexpr))
FMath == fexpr.ty = "num" /\ FGrow(Math("sin", fexpr))
FMap == fexpr.ty = "num" /\ FGrow(Map("f", fexpr))
FDate == fexpr.ty = "datetime" /\ FGrow(Date(fexpr))
FDay == fexpr.ty = "datetime" /\ FGrow(DateTime("Day", fexpr))
FReduce == fexpr.ty = "num" /\ FGrow(Other("sum", fexpr))
FDistinct == fexpr.ty = "num" /\ FGrow(Other("distinct", fexpr))

Fuse ==
    /\ fpc = "build"
    /\ LET r == broadcast_collect(fexpr) IN fused' = r.tree /\ created' = r.created
    /\ fpc' = "fused"
    /\ UNCHANGED <<fexpr, fused2, created2>>

FuseAgain ==
    /\ fpc = "fused"
    /\ LET r == broadcast_collect(fused) IN fused2' = r.tree /\ created2' = r.created
    /\ fpc' = "again"
    /\ UNCHANGED <<fexpr, fused, created>>

NextFuse ==
    \/ (FField /\ UNCHANGED <<compilerVars, threadVars>>)
    \/ (FArithmetic /\ UNCHANGED <<compilerVars, threadVars>>)
    \/ (FMath /\ UNCHANGED <<compilerVars, threadVars>>)
    \/ (FMap /\ UNCHANGED <<compilerVars, threadVars>>)
    \/ (FDate /\ UNCHANGED <<compilerVars, threadVars>>)
    \/ (FDay /\ UNCHANGED <<compilerVars, threadVars>>)
    \/ (FReduce /\ UNCHANGED <<compilerVars, threadVars>>)
    \/ (FDistinct /\ UNCHANGED <<compilerVars, threadVars>>)
    \/ (Fuse /\ UNCHANGED <<compilerVars, threadVars>>)
    \/ (FuseAgain /\ UNCHANGED <<compilerVars, threadVars>>)

SpecFuse == InitFuse /\ [][NextFuse]_vars

(***************************************************************************)
(* Claims about the fuser.                                                 *)
(***************************************************************************)
\* Positions in a tree: the child indices from the root down.
RECURSIVE Paths(_)
Paths(e) ==
    {<<>>} \cup UNION {{<<i>> \o p : p \in Paths(e.kids[i])} : i \in DOMAIN e.kids}
RECURSIVE HasPath(_, _)
HasPath(e, p) ==
    p = <<>> \/ (p[1] \in DOMAIN e.kids /\ HasPath(e.kids[p[1]], Tail(p)))
RECURSIVE NodeAt(_, _)
NodeAt(e, p) == IF p = <<>> THEN e ELSE NodeAt(e.kids[p[1]], Tail(p))
ProperPrefixes(p) == {SubSeq(p, 1, n) : n \in 0..(Len(p) - 1)}

FusableCats == {"Arithmetic", "Math", "Map", "DateTime", "Date", "Time", "Millisecond"}
DescendCats == FusableCats \cup {"Field"}
Ran == fpc \in {"fused", "again"}

\* C4: a second run of broadcast_collect returns the tree the first run
\* returned, and fuses nothing.
C4_FuseIdempotent ==
    fpc = "again" => (fused2 = fused /\ created2 = {})

C4_Witness ==
    fpc = "again" /\ Cardinality(created) >= 2 /\ fused # fexpr

\* The scalar-shaped fusable nodes of the input, by position.
ScalarFusableAt(p) ==
    LET n == NodeAt(fexpr, p) IN IsExpr(n) /\ n.cat \in FusableCats /\ ~n.coll
\* The ancestors of position p that the pass fuses.
FusedAbove(p) ==
    {q \in ProperPrefixes(p) :
        LET n == NodeAt(fexpr, q) IN n.cat \in FusableCats /\ n.coll}

LeafPositions(x) ==
    {p \in Paths(x) :
        /\ IsExpr(NodeAt(x, p))
        /\ NodeAt(x, p).cat \notin DescendCats
        /\ \A q \in ProperPrefixes(p) : NodeAt(x, q).cat \in DescendCats}
ReachedLeaves(x) == {NodeAt(x, p) : p \in LeafPositions(x)}

Threads == 1..MaxThreads

ThreadFunc(t, k) == "h" \o ToString(t) \o "_" \o ToString(k)
RECURSIVE MapChain(_, _)
MapChain(t, n) ==
    IF n = 0 THEN Symbol(<<"a">>) ELSE Map(ThreadFunc(t, n), MapChain(t, n - 1))

\* The functions of e's map nodes in the order print_python reaches
\* next(funcnames) for them: a node's inputs first, left to right.
RECURSIVE Flatten(_)
Flatten(xss) == IF xss = <<>> THEN <<>> ELSE xss[1] \o Flatten(Tail(xss))
RECURSIVE MapOrder(_)
MapOrder(e) ==
    Flatten([i \in DOMAIN e.kids |-> MapOrder(e.kids[i])])
        \o (IF e.cat = "Map" THEN e.tag ELSE <<>>)

\* next() on a generator that is already executing raises ValueError.
GeneratorNeverBusy == FALSE
GeneratorBusy == gi_running

InitThreads ==
    /\ texpr \in [Threads -> {MapChain(t, n) : t \in Threads, n \in 1..MaxThreadMaps}]
    /\ \A t \in Threads : \E n \in 1..MaxThreadMaps : texpr[t] = MapChain(t, n)
    /\ tpc = [t \in Threads |-> "compile"]
    /\ ttodo = [t \in Threads |-> MapOrder(texpr[t])]
    /\ tscope = [t \in Threads |-> EmptyScope]
    /\ tdrawn = [t \in Threads |-> <<>>]
    /\ gi_running = FALSE
    /\ gi_frame_i = 0
    /\ CompilerInit /\ expr = Symbol(<<"a">>) /\ FuserIdle

\* funcname = next(funcnames): the generator is entered, or refuses.
TEnter(t) ==
    /\ tpc[t] = "compile"
    /\ IF GeneratorBusy
       THEN tpc' = [tpc EXCEPT ![t] = "raised"] /\ UNCHANGED gi_running
       ELSE tpc' = [tpc EXCEPT ![t] = "gen_iter"] /\ gi_running' = TRUE
    /\ UNCHANGED <<texpr, ttodo, tscope, tdrawn, gi_frame_i, counter>>

\* for i in itertools.count()
TIter(t) ==
    /\ tpc[t] = "gen_iter"
    /\ gi_frame_i' = counter
    /\ counter' = CountNext(counter)
    /\ tpc' = [tpc EXCEPT ![t] = "gen_yield"]
    /\ UNCHANGED <<texpr, ttodo, tscope, tdrawn, gi_running>>

\* yield 'func_%d' % i, and back in print_python:
\* toolz.assoc(scope, funcname, expr.func)
TYield(t) ==
    /\ tpc[t] = "gen_yield"
    /\ LET funcname == FuncName(gi_frame_i) IN
       /\ tdrawn' = [tdrawn EXCEPT ![t] = Append(@, funcname)]
       /\ tscope' = [tscope EXCEPT ![t] = Assoc(@, funcname, FuncV(Head(ttodo[t])))]
    /\ ttodo' = [ttodo EXCEPT ![t] = Tail(@)]
    /\ gi_running' = FALSE
    /\ tpc' = [tpc EXCEPT ![t] = IF Len(ttodo[t]) = 1 THEN "returned" ELSE "compile"]
    /\ UNCHANGED <<texpr, gi_frame_i, counter>>

NextThreads ==
    \/ \E t \in Threads : TEnter(t) /\ UNCHANGED <<expr, leaves, pc, issued, result, value, fuserVars>>
    \/ \E t \in Threads : TIter(t) /\ UNCHANGED <<expr, leaves, pc, issued, result, value, fuserVars>>
    \/ \E t \in Threads : TYield(t) /\ UNCHANGED <<expr, leaves, pc, issued, result, value, fuserVars>>

SpecThreads == InitThreads /\ [][NextThreads]_vars

\* C9: under every interleaving no two map-node compilations obtain the
\* same placeholder name, and every scope binds each placeholder its thread
\* obtained to the function of the map node it was obtained for, and binds
\* nothing else.
C9_NoSharedPlaceholder ==
    /\ \A t, u \in Threads : \A i \in DOMAIN tdrawn[t], j \in DOMAIN tdrawn[u] :
           (t # u \/ i # j) => tdrawn[t][i] # tdrawn[u][j]
    /\ \A t \in Threads :
           /\ DOMAIN tscope[t] = Range(tdrawn[t])
           /\ \A i \in DOMAIN tdrawn[t] :
                  tscope[t][tdrawn[t][i]] = FuncV(MapOrder(texpr[t])[i])

C9_Witness ==
    /\ \A t \in Threads : tpc[t] = "returned"
    /\ \E t, u \in Threads :
           /\ t # u
           /\ Len(tdrawn[t]) >= 2 /\ Len(tdrawn[u]) >= 1
           /\ tdrawn[t][1] = FuncName(0) /\ tdrawn[u][1] = FuncName(1)

====
